---- MODULE Spec2Model ----
(***************************************************************************)
(* Model of core/drivers/crypto/hse/hse_core.c: the HSE driver core.       *)
(*                                                                         *)
(* One boot context runs crypto_driver_init (which itself issues the       *)
(* firmware-version request through hse_srv_req_sync on the admin          *)
(* channel); once it has returned TEE_SUCCESS, NumCallers caller contexts  *)
(* invoke hse_srv_req_sync, hse_key_slot_acquire and hse_key_slot_release  *)
(* concurrently.  Every action is one step of one context; the steps are   *)
(* cut at the lock operations and at each access to shared memory or to    *)
(* the MU peripheral, so that all interleavings of the C code that differ  *)
(* in what they observe are interleavings of the model.                    *)
(*                                                                         *)
(* Pointers are integers: NULL is 0, the key ring (when allocated) is at   *)
(* RING_BASE and &key_ring[i] is key_ring + i.                             *)
(***************************************************************************)
EXTENDS Integers, Sequences, FiniteSets, TLC

(* ------------------------------------------------------------------ *)
(* Sizes.  The header values (16 channels, 2 stream channels) are      *)
(* scaled down; the layout admin / shared / stream is kept.            *)
(* ------------------------------------------------------------------ *)
NumCallers == 2
HSE_NUM_CHANNELS == 4
HSE_STREAM_COUNT == 1
CFG_HSE_AES_KEY_GROUP_SIZE == 2
MaxSrvId == 1
MaxFaults == 1

CFG_HSE_AES_KEY_GROUP_ID == 1
HSE_CHANNEL_ADM == 0
HSE_CHANNEL_ANY == 172
HSE_CHANNEL_INV == 255
SPINLOCK_UNLOCK == 0
SPINLOCK_LOCK == 1
NULL == 0
RING_BASE == 1
FOREIGN_AES_SLOT == 100
FOREIGN_OTHER_SLOT == 101

Boot == 0
Callers == 1..NumCallers
Procs == {Boot} \cup Callers
Channels == 0..(HSE_NUM_CHANNELS - 1)

(* Service descriptors: srv_id is the only field the core interprets. *)
NoDesc == [srv_id |-> 0, arg |-> "none"]
CallerDescs == {[srv_id |-> s, arg |-> "req"] : s \in 1..MaxSrvId}
FwDesc(bufok) ==
    [srv_id |-> MaxSrvId + 1, arg |-> IF bufok THEN "fwbuf" ELSE "garbage"]

(* The channel arguments callers pass: every valid index, the first    *)
(* index out of range and the "any" selector.                          *)
ChannelArgs == Channels \cup {HSE_NUM_CHANNELS, HSE_CHANNEL_ANY}

(* Service responses the firmware produces in the concurrent model.    *)
SrvRsps == {"HSE_SRV_RSP_OK", "HSE_SRV_RSP_INVALID_PARAM", "HSE_SRV_RSP_UNKNOWN"}
NoRsp == "none"

NoOp == [op |-> "none", ch |-> 0]

VARIABLES
    pc,                 \* position of each context in the code
    channel,            \* hse_srv_req_sync: parameter/local channel
    desc,               \* hse_srv_req_sync: parameter srv_desc (NoDesc = NULL)
    srv_rsp,            \* hse_srv_req_sync: local srv_rsp
    ret,                \* value last returned to the context by hse_srv_req_sync
    slot,               \* acquire/release: slot pointer (result / parameter)
    idx,                \* acquire/release: loop index i
    drv,                \* drv != NULL
    mu,                 \* drv->mu != NULL
    status,             \* crypto_driver_init: status & HSE_STATUS_INIT_OK
    fw_buf,             \* hse_check_fw_version: hse_buf_alloc succeeded
    firmware_version,   \* drv->firmware_version
    init_ret,           \* return value of crypto_driver_init
    type,               \* drv->type[]
    channel_busy,       \* drv->channel_busy[]
    srv_desc,           \* drv->srv_desc[]: buffer content and id
    tx_lock,            \* drv->tx_lock
    key_ring_lock,      \* drv->key_ring_lock
    aes_key_ring,       \* drv->aes_key_ring (pointer)
    aes_key_ring_size,  \* drv->aes_key_ring_size
    key_mem,            \* the array aes_key_ring points to
    mu_state,           \* MU peripheral: per channel "free" / "sent" / "pending"
    faults,             \* failures of the environment so far
    hwop,               \* the MU operation performed by the last step, if any
    lent                \* slots returned by acquire and not released since

locals == <<pc, channel, desc, srv_rsp, ret, slot, idx>>
initst == <<drv, mu, status, fw_buf, firmware_version, init_ret>>
chans == <<type, channel_busy, srv_desc>>
locks == <<tx_lock, key_ring_lock>>
ring == <<aes_key_ring, aes_key_ring_size, key_mem, lent>>
periph == <<mu_state, faults>>
vars == <<locals, initst, chans, locks, ring, periph, hwop>>

(* ------------------------------------------------------------------ *)
(* hse_err_decode                                                      *)
(* ------------------------------------------------------------------ *)
(* Variant: the arms for the key-slot failures other than             *)
(* KEY_NOT_AVAILABLE are missing and fall to the default arm.         *)
ErrDecodeKeyArmsMissing(rsp) ==
    CASE rsp = "HSE_SRV_RSP_OK" -> "TEE_SUCCESS"
      [] rsp = "HSE_SRV_RSP_VERIFY_FAILED" -> "TEE_ERROR_COMMUNICATION"
      [] rsp \in {"HSE_SRV_RSP_INVALID_ADDR", "HSE_SRV_RSP_INVALID_PARAM"}
            -> "TEE_ERROR_BAD_PARAMETERS"
      [] rsp = "HSE_SRV_RSP_NOT_SUPPORTED" -> "TEE_ERROR_NOT_SUPPORTED"
      [] rsp = "HSE_SRV_RSP_NOT_ALLOWED" -> "TEE_ERROR_ACCESS_DENIED"
      [] rsp = "HSE_SRV_RSP_NOT_ENOUGH_SPACE" -> "TEE_ERROR_OUT_OF_MEMORY"
      [] rsp = "HSE_SRV_RSP_CANCELED" -> "TEE_ERROR_CANCEL"
      [] rsp = "HSE_SRV_RSP_KEY_NOT_AVAILABLE" -> "TEE_ERROR_BAD_STATE"
      [] OTHER -> "TEE_ERROR_GENERIC"

hse_err_decode(rsp) ==
    CASE rsp = "HSE_SRV_RSP_OK" -> "TEE_SUCCESS"
      [] rsp = "HSE_SRV_RSP_VERIFY_FAILED" -> "TEE_ERROR_COMMUNICATION"
      [] rsp \in {"HSE_SRV_RSP_INVALID_ADDR", "HSE_SRV_RSP_INVALID_PARAM"}
            -> "TEE_ERROR_BAD_PARAMETERS"
      [] rsp = "HSE_SRV_RSP_NOT_SUPPORTED" -> "TEE_ERROR_NOT_SUPPORTED"
      [] rsp = "HSE_SRV_RSP_NOT_ALLOWED" -> "TEE_ERROR_ACCESS_DENIED"
      [] rsp = "HSE_SRV_RSP_NOT_ENOUGH_SPACE" -> "TEE_ERROR_OUT_OF_MEMORY"
      [] rsp = "HSE_SRV_RSP_CANCELED" -> "TEE_ERROR_CANCEL"
      [] rsp \in {"HSE_SRV_RSP_KEY_NOT_AVAILABLE", "HSE_SRV_RSP_KEY_EMPTY",
                  "HSE_SRV_RSP_KEY_INVALID", "HSE_SRV_RSP_KEY_WRITE_PROTECTED",
                  "HSE_SRV_RSP_KEY_UPDATE_ERROR"} -> "TEE_ERROR_BAD_STATE"
      [] OTHER -> "TEE_ERROR_GENERIC"

(* The status codes hse_err_decode names, and two it does not name. *)
NamedSrvRsps ==
    {"HSE_SRV_RSP_OK", "HSE_SRV_RSP_VERIFY_FAILED", "HSE_SRV_RSP_INVALID_ADDR",
     "HSE_SRV_RSP_INVALID_PARAM", "HSE_SRV_RSP_NOT_SUPPORTED",
     "HSE_SRV_RSP_NOT_ALLOWED", "HSE_SRV_RSP_NOT_ENOUGH_SPACE",
     "HSE_SRV_RSP_CANCELED", "HSE_SRV_RSP_KEY_NOT_AVAILABLE",
     "HSE_SRV_RSP_KEY_EMPTY", "HSE_SRV_RSP_KEY_INVALID",
     "HSE_SRV_RSP_KEY_WRITE_PROTECTED", "HSE_SRV_RSP_KEY_UPDATE_ERROR"}
AllSrvRsps == NamedSrvRsps \cup {"HSE_SRV_RSP_UNKNOWN", "HSE_SRV_RSP_GENERAL_ERROR"}

(* ------------------------------------------------------------------ *)
(* hse_next_free_channel: scan from the highest index down to 1.       *)
(* ------------------------------------------------------------------ *)
RECURSIVE ScanFreeChannel(_, _, _)
ScanFreeChannel(ch, ty, busy) ==
    IF ch > 0
    THEN IF ty[ch] = "SHARED" /\ ~busy[ch]
         THEN ch
         ELSE ScanFreeChannel(ch - 1, ty, busy)
    ELSE HSE_CHANNEL_INV

(* Variant: the scan does not look at the channel type. *)
RECURSIVE ScanFreeAnyType(_, _)
ScanFreeAnyType(ch, busy) ==
    IF ch > 0
    THEN IF ~busy[ch] THEN ch ELSE ScanFreeAnyType(ch - 1, busy)
    ELSE HSE_CHANNEL_INV

NextFreeAnyType(ty, busy) == ScanFreeAnyType(HSE_NUM_CHANNELS - 1, busy)

hse_next_free_channel(ty, busy) ==
    ScanFreeChannel(HSE_NUM_CHANNELS - 1, ty, busy)

(* ------------------------------------------------------------------ *)
(* Initial state: nothing constructed, crypto_driver_init not started. *)
(* ------------------------------------------------------------------ *)
Init ==
    /\ pc = [t \in Procs |-> IF t = Boot THEN "init" ELSE "idle"]
    /\ channel = [t \in Procs |-> 0]
    /\ desc = [t \in Procs |-> NoDesc]
    /\ srv_rsp = [t \in Procs |-> NoRsp]
    /\ ret = [t \in Procs |-> "none"]
    /\ slot = [t \in Procs |-> NULL]
    /\ idx = [t \in Procs |-> 0]
    /\ drv = FALSE
    /\ mu = FALSE
    /\ status = FALSE
    /\ fw_buf = FALSE
    /\ firmware_version = "unset"
    /\ init_ret = "none"
    /\ type = [c \in Channels |-> "UNSET"]
    /\ channel_busy = [c \in Channels |-> FALSE]
    /\ srv_desc = [c \in Channels |-> [buf |-> NoDesc, id |-> 0]]
    /\ tx_lock = SPINLOCK_UNLOCK
    /\ key_ring_lock = SPINLOCK_UNLOCK
    /\ aes_key_ring = NULL
    /\ aes_key_ring_size = 0
    /\ key_mem = <<>>
    /\ mu_state = [c \in Channels |-> "free"]
    /\ faults = 0
    /\ hwop = NoOp
    /\ lent = {}

(* ------------------------------------------------------------------ *)
(* crypto_driver_init, run once by the boot context.                   *)
(* ------------------------------------------------------------------ *)
(* The outcomes of an operation of the environment that can fail     *)
(* after start-up has got as far as the version probe (a buffer or    *)
(* key ring allocation, a MU send or receive): success, and failure   *)
(* while fewer than MaxFaults such failures have happened.            *)
EnvOutcomes == IF faults < MaxFaults THEN {TRUE, FALSE} ELSE {TRUE}

Fault(ok) == faults' = IF ok THEN faults ELSE faults + 1

(* A data abort in the core: every context stops. *)
Panic == pc' = [t \in Procs |-> "panic"]

InitFail(r) ==
    /\ init_ret' = r
    /\ pc' = [pc EXCEPT ![Boot] = "done"]

(* malloc of the driver state: the memory is not cleared, so a field   *)
(* that is read before it is written holds an arbitrary value.  The    *)
(* only such field is channel_busy[].                                  *)
DrvMalloc ==
    /\ pc[Boot] = "init"
    /\ \E ok \in BOOLEAN :
        IF ok
        THEN /\ drv' = TRUE
             /\ channel_busy' \in [Channels -> BOOLEAN]
             /\ pc' = [pc EXCEPT ![Boot] = "mu_init"]
             /\ UNCHANGED init_ret
        ELSE /\ InitFail("TEE_ERROR_OUT_OF_MEMORY")
             /\ UNCHANGED <<drv, channel_busy>>
    /\ hwop' = NoOp
    /\ UNCHANGED <<channel, desc, srv_rsp, ret, slot, idx, mu, status, fw_buf,
                   firmware_version, type, srv_desc, locks, ring, periph>>

MuInit ==
    /\ pc[Boot] = "mu_init"
    /\ \E ok \in BOOLEAN :
        IF ok
        THEN /\ mu' = TRUE
             /\ pc' = [pc EXCEPT ![Boot] = "check_status"]
             /\ UNCHANGED init_ret
        ELSE /\ InitFail("TEE_ERROR_GENERIC")
             /\ UNCHANGED mu
    /\ hwop' = NoOp
    /\ UNCHANGED <<channel, desc, srv_rsp, ret, slot, idx, drv, status, fw_buf,
                   firmware_version, chans, locks, ring, periph>>

CheckStatus ==
    /\ pc[Boot] = "check_status"
    /\ \E ok \in BOOLEAN :
        /\ status' = ok
        /\ IF ok
           THEN /\ pc' = [pc EXCEPT ![Boot] = "config"]
                /\ UNCHANGED init_ret
           ELSE InitFail("TEE_ERROR_BAD_STATE")
    /\ hwop' = NoOp
    /\ UNCHANGED <<channel, desc, srv_rsp, ret, slot, idx, drv, mu, fw_buf,
                   firmware_version, chans, locks, ring, periph>>

(* hse_config_channels *)
ChannelType(c) ==
    IF c = 0 THEN "ADMIN"
    ELSE IF c >= HSE_NUM_CHANNELS - HSE_STREAM_COUNT THEN "STREAM"
    ELSE "SHARED"

hse_config_channels ==
    type' = [c \in Channels |-> ChannelType(c)]

ConfigChannels ==
    /\ pc[Boot] = "config"
    /\ hse_config_channels
    /\ tx_lock' = SPINLOCK_UNLOCK
    /\ key_ring_lock' = SPINLOCK_UNLOCK
    /\ pc' = [pc EXCEPT ![Boot] = "fw_version"]
    /\ hwop' = NoOp
    /\ UNCHANGED <<channel, desc, srv_rsp, ret, slot, idx, initst, channel_busy,
                   srv_desc, ring, periph>>

(* ------------------------------------------------------------------ *)
(* hse_srv_req_sync                                                    *)
(* ------------------------------------------------------------------ *)
SrvReqReturn(t, r) ==
    /\ pc' = [pc EXCEPT ![t] = IF t = Boot THEN "fw_ret" ELSE "returned"]
    /\ ret' = [ret EXCEPT ![t] = r]
    /\ channel' = [channel EXCEPT ![t] = 0]
    /\ desc' = [desc EXCEPT ![t] = NoDesc]
    /\ srv_rsp' = [srv_rsp EXCEPT ![t] = NoRsp]

(* Variant: the check for an absent descriptor is missing. *)
SrvReqEntryNoNullCheck(t, ch, d) ==
    IF ch # HSE_CHANNEL_ANY /\ ch >= HSE_NUM_CHANNELS
    THEN SrvReqReturn(t, "TEE_ERROR_BAD_PARAMETERS")
    ELSE /\ pc' = [pc EXCEPT ![t] = "tx_lock"]
         /\ channel' = [channel EXCEPT ![t] = ch]
         /\ desc' = [desc EXCEPT ![t] = d]
         /\ ret' = [ret EXCEPT ![t] = "none"]
         /\ UNCHANGED srv_rsp

(* Entry and the two parameter checks. *)
SrvReqEntry(t, ch, d) ==
    IF d = NoDesc \/ (ch # HSE_CHANNEL_ANY /\ ch >= HSE_NUM_CHANNELS)
    THEN SrvReqReturn(t, "TEE_ERROR_BAD_PARAMETERS")
    ELSE /\ pc' = [pc EXCEPT ![t] = "tx_lock"]
         /\ channel' = [channel EXCEPT ![t] = ch]
         /\ desc' = [desc EXCEPT ![t] = d]
         /\ ret' = [ret EXCEPT ![t] = "none"]
         /\ UNCHANGED srv_rsp

CallSrvReqSync(t) ==
    /\ init_ret = "TEE_SUCCESS"
    /\ pc[t] = "idle"
    /\ \E ch \in ChannelArgs, d \in CallerDescs \cup {NoDesc} :
        SrvReqEntry(t, ch, d)
    /\ hwop' = NoOp
    /\ UNCHANGED <<slot, idx, initst, chans, locks, ring, periph>>

(* Variant: the lock is taken without waiting for it to be free. *)
TxLockNoWait(t) ==
    /\ pc[t] = "tx_lock"
    /\ tx_lock' = SPINLOCK_LOCK
    /\ pc' = [pc EXCEPT ![t] = "select"]
    /\ hwop' = NoOp
    /\ UNCHANGED <<channel, desc, srv_rsp, ret, slot, idx, initst, chans,
                   key_ring_lock, ring, periph>>

(* cpu_spin_lock_xsave(&drv->tx_lock) *)
TxLock(t) ==
    /\ pc[t] = "tx_lock"
    /\ tx_lock = SPINLOCK_UNLOCK
    /\ tx_lock' = SPINLOCK_LOCK
    /\ pc' = [pc EXCEPT ![t] = "select"]
    /\ hwop' = NoOp
    /\ UNCHANGED <<channel, desc, srv_rsp, ret, slot, idx, initst, chans,
                   key_ring_lock, ring, periph>>

(* Variant: the exit taken when no channel is free keeps the lock. *)
SelectChannelNoUnlock(t) ==
    /\ pc[t] = "select"
    /\ IF channel[t] = HSE_CHANNEL_ANY
       THEN LET c == hse_next_free_channel(type, channel_busy) IN
            IF c = HSE_CHANNEL_INV
            THEN /\ UNCHANGED tx_lock
                 /\ SrvReqReturn(t, "TEE_ERROR_BUSY")
            ELSE /\ channel' = [channel EXCEPT ![t] = c]
                 /\ pc' = [pc EXCEPT ![t] = "mark"]
                 /\ UNCHANGED <<tx_lock, desc, srv_rsp, ret>>
       ELSE IF channel_busy[channel[t]]
            THEN /\ tx_lock' = SPINLOCK_UNLOCK
                 /\ SrvReqReturn(t, "TEE_ERROR_BUSY")
            ELSE /\ pc' = [pc EXCEPT ![t] = "mark"]
                 /\ UNCHANGED <<tx_lock, channel, desc, srv_rsp, ret>>
    /\ hwop' = NoOp
    /\ UNCHANGED <<slot, idx, initst, chans, key_ring_lock, ring, periph>>

(* Variant: an explicitly named channel is taken without looking at   *)
(* its busy flag.                                                     *)
SelectChannelNoBusyCheck(t) ==
    /\ pc[t] = "select"
    /\ IF channel[t] = HSE_CHANNEL_ANY
       THEN LET c == hse_next_free_channel(type, channel_busy) IN
            IF c = HSE_CHANNEL_INV
            THEN /\ tx_lock' = SPINLOCK_UNLOCK
                 /\ SrvReqReturn(t, "TEE_ERROR_BUSY")
            ELSE /\ channel' = [channel EXCEPT ![t] = c]
                 /\ pc' = [pc EXCEPT ![t] = "mark"]
                 /\ UNCHANGED <<tx_lock, desc, srv_rsp, ret>>
       ELSE /\ pc' = [pc EXCEPT ![t] = "mark"]
            /\ UNCHANGED <<tx_lock, channel, desc, srv_rsp, ret>>
    /\ hwop' = NoOp
    /\ UNCHANGED <<slot, idx, initst, chans, key_ring_lock, ring, periph>>

(* Variant: the lock is released as soon as the channel is chosen,    *)
(* before its busy flag is set.                                       *)
SelectChannelUnlockEarly(t) ==
    /\ pc[t] = "select"
    /\ tx_lock' = SPINLOCK_UNLOCK
    /\ IF channel[t] = HSE_CHANNEL_ANY
       THEN LET c == hse_next_free_channel(type, channel_busy) IN
            IF c = HSE_CHANNEL_INV
            THEN SrvReqReturn(t, "TEE_ERROR_BUSY")
            ELSE /\ channel' = [channel EXCEPT ![t] = c]
                 /\ pc' = [pc EXCEPT ![t] = "mark"]
                 /\ UNCHANGED <<desc, srv_rsp, ret>>
       ELSE IF channel_busy[channel[t]]
            THEN SrvReqReturn(t, "TEE_ERROR_BUSY")
            ELSE /\ pc' = [pc EXCEPT ![t] = "mark"]
                 /\ UNCHANGED <<channel, desc, srv_rsp, ret>>
    /\ hwop' = NoOp
    /\ UNCHANGED <<slot, idx, initst, chans, key_ring_lock, ring, periph>>

(* Channel resolution under the lock, with the two busy exits. *)
SelectChannel(t) ==
    /\ pc[t] = "select"
    /\ IF channel[t] = HSE_CHANNEL_ANY
       THEN LET c == hse_next_free_channel(type, channel_busy) IN
            IF c = HSE_CHANNEL_INV
            THEN /\ tx_lock' = SPINLOCK_UNLOCK
                 /\ SrvReqReturn(t, "TEE_ERROR_BUSY")
            ELSE /\ channel' = [channel EXCEPT ![t] = c]
                 /\ pc' = [pc EXCEPT ![t] = "mark"]
                 /\ UNCHANGED <<tx_lock, desc, srv_rsp, ret>>
       ELSE IF channel_busy[channel[t]]
            THEN /\ tx_lock' = SPINLOCK_UNLOCK
                 /\ SrvReqReturn(t, "TEE_ERROR_BUSY")
            ELSE /\ pc' = [pc EXCEPT ![t] = "mark"]
                 /\ UNCHANGED <<tx_lock, channel, desc, srv_rsp, ret>>
    /\ hwop' = NoOp
    /\ UNCHANGED <<slot, idx, initst, chans, key_ring_lock, ring, periph>>

(* drv->channel_busy[channel] = true *)
MarkBusy(t) ==
    /\ pc[t] = "mark"
    /\ channel_busy' = [channel_busy EXCEPT ![channel[t]] = TRUE]
    /\ pc' = [pc EXCEPT ![t] = "tx_unlock"]
    /\ hwop' = NoOp
    /\ UNCHANGED <<channel, desc, srv_rsp, ret, slot, idx, initst, type,
                   srv_desc, locks, ring, periph>>

(* Variant: the lock is kept over the copy, the send, the poll and    *)
(* the receive, and released only with the busy flag.                 *)
TxUnlockKept(t) ==
    /\ pc[t] = "tx_unlock"
    /\ pc' = [pc EXCEPT ![t] = "sync"]
    /\ hwop' = NoOp
    /\ UNCHANGED <<channel, desc, srv_rsp, ret, slot, idx, initst, chans,
                   locks, ring, periph>>

(* cpu_spin_unlock_xrestore(&drv->tx_lock) *)
TxUnlock(t) ==
    /\ pc[t] = "tx_unlock"
    /\ tx_lock' = SPINLOCK_UNLOCK
    /\ pc' = [pc EXCEPT ![t] = "sync"]
    /\ hwop' = NoOp
    /\ UNCHANGED <<channel, desc, srv_rsp, ret, slot, idx, initst, chans,
                   key_ring_lock, ring, periph>>

(* hse_sync_srv_desc(channel, srv_desc); the descriptor parameter is  *)
(* not used after this call.                                          *)
hse_sync_srv_desc(ch, d) ==
    IF ch >= HSE_NUM_CHANNELS \/ d = NoDesc
    THEN UNCHANGED srv_desc
    ELSE srv_desc' = [srv_desc EXCEPT ![ch] = [buf |-> d, id |-> d.srv_id]]

SyncSrvDesc(t) ==
    /\ pc[t] = "sync"
    /\ hse_sync_srv_desc(channel[t], desc[t])
    /\ desc' = [desc EXCEPT ![t] = NoDesc]
    /\ pc' = [pc EXCEPT ![t] = "send"]
    /\ hwop' = NoOp
    /\ UNCHANGED <<channel, srv_rsp, ret, slot, idx, initst, type,
                   channel_busy, locks, ring, periph>>

(* Variant: a failed send gives the channel back before returning. *)
MsgSendReleaseOnError(t) ==
    /\ pc[t] = "send"
    /\ hwop' = [op |-> "send", ch |-> channel[t]]
    /\ \E ok \in EnvOutcomes :
        IF ok
        THEN /\ mu_state' = [mu_state EXCEPT ![channel[t]] = "sent"]
             /\ pc' = [pc EXCEPT ![t] = "poll"]
             /\ UNCHANGED <<channel, desc, srv_rsp, ret, faults, channel_busy>>
        ELSE /\ SrvReqReturn(t, "MU_SEND_ERROR")
             /\ channel_busy' = [channel_busy EXCEPT ![channel[t]] = FALSE]
             /\ faults' = faults + 1
             /\ UNCHANGED mu_state
    /\ UNCHANGED <<slot, idx, initst, type, srv_desc, locks, ring>>

(* ret = hse_mu_msg_send(mu, channel, dma); if (ret) return ret; *)
MsgSend(t) ==
    /\ pc[t] = "send"
    /\ hwop' = [op |-> "send", ch |-> channel[t]]
    /\ \E ok \in EnvOutcomes :
        IF ok
        THEN /\ mu_state' = [mu_state EXCEPT ![channel[t]] = "sent"]
             /\ pc' = [pc EXCEPT ![t] = "poll"]
             /\ UNCHANGED <<channel, desc, srv_rsp, ret, faults>>
        ELSE /\ SrvReqReturn(t, "MU_SEND_ERROR")
             /\ faults' = faults + 1
             /\ UNCHANGED mu_state
    /\ UNCHANGED <<slot, idx, initst, chans, locks, ring>>

(* Variant: the poll gives up when the indicator is not set. *)
MsgPendingGiveUp(t) ==
    /\ pc[t] = "poll"
    /\ hwop' = [op |-> "pending", ch |-> channel[t]]
    /\ IF mu_state[channel[t]] = "pending"
       THEN /\ pc' = [pc EXCEPT ![t] = "recv"]
            /\ UNCHANGED <<channel, desc, srv_rsp, ret>>
       ELSE SrvReqReturn(t, "TEE_ERROR_BUSY")
    /\ UNCHANGED <<slot, idx, initst, chans, locks, ring, periph>>

(* while (!hse_mu_msg_pending(mu, channel)) ; *)
MsgPending(t) ==
    /\ pc[t] = "poll"
    /\ hwop' = [op |-> "pending", ch |-> channel[t]]
    /\ pc' = [pc EXCEPT ![t] =
                IF mu_state[channel[t]] = "pending" THEN "recv" ELSE "poll"]
    /\ UNCHANGED <<channel, desc, srv_rsp, ret, slot, idx, initst, chans, locks,
                   ring, periph>>

(* ret = hse_mu_msg_recv(mu, channel, &srv_rsp); if (ret) return ret; *)
MsgRecv(t) ==
    /\ pc[t] = "recv"
    /\ hwop' = [op |-> "recv", ch |-> channel[t]]
    /\ \E ok \in EnvOutcomes :
        IF ok
        THEN /\ \E r \in SrvRsps : srv_rsp' = [srv_rsp EXCEPT ![t] = r]
             /\ mu_state' = [mu_state EXCEPT ![channel[t]] = "free"]
             /\ pc' = [pc EXCEPT ![t] = "clear"]
             /\ UNCHANGED <<channel, desc, ret, faults>>
        ELSE /\ SrvReqReturn(t, "MU_RECV_ERROR")
             /\ faults' = faults + 1
             /\ UNCHANGED mu_state
    /\ UNCHANGED <<slot, idx, initst, chans, locks, ring>>

(* Variant: the busy flag is not cleared before the result is         *)
(* translated.                                                        *)
ClearBusyForgotten(t) ==
    /\ pc[t] = "clear"
    /\ pc' = [pc EXCEPT ![t] = "decode"]
    /\ hwop' = NoOp
    /\ UNCHANGED <<channel, desc, srv_rsp, ret, slot, idx, initst, chans,
                   locks, ring, periph>>

(* drv->channel_busy[channel] = false *)
ClearBusy(t) ==
    /\ pc[t] = "clear"
    /\ channel_busy' = [channel_busy EXCEPT ![channel[t]] = FALSE]
    /\ pc' = [pc EXCEPT ![t] = "decode"]
    /\ hwop' = NoOp
    /\ UNCHANGED <<channel, desc, srv_rsp, ret, slot, idx, initst, type,
                   srv_desc, locks, ring, periph>>

(* ret = hse_err_decode(srv_rsp); return ret; *)
Decode(t) ==
    /\ pc[t] = "decode"
    /\ SrvReqReturn(t, hse_err_decode(srv_rsp[t]))
    /\ hwop' = NoOp
    /\ UNCHANGED <<slot, idx, initst, chans, locks, ring, periph>>

(* The firmware answers a request that was sent on channel c; the    *)
(* response word is read by the receive.                             *)
FwRespond(c) ==
    /\ mu_state[c] = "sent"
    /\ mu_state' = [mu_state EXCEPT ![c] = "pending"]
    /\ UNCHANGED faults
    /\ hwop' = NoOp
    /\ UNCHANGED <<locals, initst, chans, locks, ring>>

(* ------------------------------------------------------------------ *)
(* hse_check_fw_version, called from crypto_driver_init.               *)
(* ------------------------------------------------------------------ *)
(* hse_buf_alloc (its result is overwritten), the descriptor, and the  *)
(* call of hse_srv_req_sync(HSE_CHANNEL_ADM, &srv_desc).               *)
FwVersionCall ==
    /\ pc[Boot] = "fw_version"
    /\ \E ok \in EnvOutcomes :
        /\ fw_buf' = ok
        /\ Fault(ok)
        /\ SrvReqEntry(Boot, HSE_CHANNEL_ADM, FwDesc(ok))
    /\ hwop' = NoOp
    /\ UNCHANGED <<slot, idx, drv, mu, status, firmware_version, init_ret,
                   chans, locks, ring, mu_state>>

(* After the request: on error free the buffer and return the error,   *)
(* which crypto_driver_init returns in turn; otherwise copy buf.data   *)
(* into drv->firmware_version.  When hse_buf_alloc had failed,         *)
(* buf.data is not a valid pointer: the copy reads garbage or aborts.  *)
FwVersionReturn ==
    /\ pc[Boot] = "fw_ret"
    /\ IF ret[Boot] # "TEE_SUCCESS"
       THEN /\ InitFail(ret[Boot])
            /\ UNCHANGED firmware_version
       ELSE /\ UNCHANGED init_ret
            /\ IF fw_buf
               THEN /\ firmware_version' = "fw"
                    /\ pc' = [pc EXCEPT ![Boot] = "ring_init"]
               ELSE \E abort \in BOOLEAN :
                        IF abort
                        THEN Panic /\ UNCHANGED firmware_version
                        ELSE /\ firmware_version' = "garbage"
                             /\ pc' = [pc EXCEPT ![Boot] = "ring_init"]
    /\ hwop' = NoOp
    /\ UNCHANGED <<channel, desc, srv_rsp, ret, slot, idx, drv, mu, status,
                   fw_buf, chans, locks, ring, periph>>

(* ------------------------------------------------------------------ *)
(* Key ring                                                            *)
(* ------------------------------------------------------------------ *)
HSE_KEY_HANDLE(group, i) == <<group, i>>

(* Variant: the ring is built with one slot more than group_size. *)
KeyRingInitOneMore(ty, group_id, group_size, malloc_ok) ==
    IF group_size = 0 \/ ~malloc_ok
    THEN <<>>
    ELSE [i \in 1..(group_size + 1) |->
            [handle |-> HSE_KEY_HANDLE(group_id, i - 1), type |-> ty,
             acquired |-> FALSE]]

(* hse_key_ring_init: the new array, or <<>> when NULL is returned. *)
hse_key_ring_init(ty, group_id, group_size, malloc_ok) ==
    IF group_size = 0 \/ ~malloc_ok
    THEN <<>>
    ELSE [i \in 1..group_size |->
            [handle |-> HSE_KEY_HANDLE(group_id, i - 1), type |-> ty,
             acquired |-> FALSE]]

KeyRingInit ==
    /\ pc[Boot] = "ring_init"
    /\ \E ok \in EnvOutcomes :
        LET r == hse_key_ring_init("AES", CFG_HSE_AES_KEY_GROUP_ID,
                                   CFG_HSE_AES_KEY_GROUP_SIZE, ok)
        IN /\ key_mem' = r
           /\ aes_key_ring' = IF r = <<>> THEN NULL ELSE RING_BASE
           /\ Fault(ok)
    /\ aes_key_ring_size' = CFG_HSE_AES_KEY_GROUP_SIZE
    /\ pc' = [pc EXCEPT ![Boot] = "init_ret"]
    /\ hwop' = NoOp
    /\ UNCHANGED <<channel, desc, srv_rsp, ret, slot, idx, initst, chans, locks,
                   lent, mu_state>>

InitReturn ==
    /\ pc[Boot] = "init_ret"
    /\ init_ret' = "TEE_SUCCESS"
    /\ pc' = [pc EXCEPT ![Boot] = "done"]
    /\ hwop' = NoOp
    /\ UNCHANGED <<channel, desc, srv_rsp, ret, slot, idx, drv, mu, status,
                   fw_buf, firmware_version, chans, locks, ring, periph>>

(* Memory: the allocated slots are at RING_BASE .. RING_BASE+Len-1.    *)
(* Two more slot objects exist outside the ring (a caller can pass     *)
(* them to release); their type field is fixed.                        *)
RingAddrs == IF aes_key_ring = NULL THEN {}
             ELSE {aes_key_ring + i : i \in 0..(Len(key_mem) - 1)}

SlotType(s) ==
    IF s \in RingAddrs THEN key_mem[s - aes_key_ring + 1].type
    ELSE IF s = FOREIGN_AES_SLOT THEN "AES"
    ELSE "OTHER"

SlotArgs == RingAddrs \cup {FOREIGN_AES_SLOT, FOREIGN_OTHER_SLOT}

KeyReturn(t, s) ==
    /\ pc' = [pc EXCEPT ![t] = "returned"]
    /\ slot' = [slot EXCEPT ![t] = s]
    /\ idx' = [idx EXCEPT ![t] = 0]

(* hse_key_slot_acquire: the switch on the key type. *)
CallKeySlotAcquire(t) ==
    /\ init_ret = "TEE_SUCCESS"
    /\ pc[t] = "idle"
    /\ \E ty \in {"AES", "OTHER"} :
        IF ty = "AES"
        THEN /\ pc' = [pc EXCEPT ![t] = "acq_lock"]
             /\ slot' = [slot EXCEPT ![t] = NULL]
             /\ idx' = [idx EXCEPT ![t] = 0]
        ELSE KeyReturn(t, NULL)
    /\ hwop' = NoOp
    /\ UNCHANGED <<channel, desc, srv_rsp, ret, initst, chans, locks, ring,
                   periph>>

(* Variant: the key ring lock is taken without waiting for it. *)
KeyRingLockNoWait(t, next) ==
    /\ key_ring_lock' = SPINLOCK_LOCK
    /\ pc' = [pc EXCEPT ![t] = next]

(* cpu_spin_lock_xsave(&drv->key_ring_lock) *)
KeyRingLock(t, next) ==
    /\ key_ring_lock = SPINLOCK_UNLOCK
    /\ key_ring_lock' = SPINLOCK_LOCK
    /\ pc' = [pc EXCEPT ![t] = next]

AcqLock(t) ==
    /\ pc[t] = "acq_lock"
    /\ KeyRingLock(t, "acq_scan")
    /\ hwop' = NoOp
    /\ UNCHANGED <<channel, desc, srv_rsp, ret, slot, idx, initst, chans,
                   tx_lock, ring, periph>>

(* Variant: the loop runs from the last slot down. *)
FirstFreeFromEnd(mem, size) ==
    IF \E i \in 0..(size - 1) : ~mem[i + 1].acquired
    THEN CHOOSE i \in 0..(size - 1) :
            /\ ~mem[i + 1].acquired
            /\ \A j \in (i + 1)..(size - 1) : mem[j + 1].acquired
    ELSE size

(* The for loop up to the first slot whose acquired flag is clear:     *)
(* the least such index, or the ring size when the loop runs out.      *)
FirstFree(mem, size) ==
    IF \E i \in 0..(size - 1) : ~mem[i + 1].acquired
    THEN CHOOSE i \in 0..(size - 1) :
            /\ ~mem[i + 1].acquired
            /\ \A j \in 0..(i - 1) : mem[j + 1].acquired
    ELSE size

(* Reading key_ring[0].acquired through a NULL ring is a data abort. *)
AcqScan(t) ==
    /\ pc[t] = "acq_scan"
    /\ IF aes_key_ring = NULL /\ aes_key_ring_size > 0
       THEN /\ Panic
            /\ UNCHANGED idx
       ELSE LET i == FirstFree(key_mem, aes_key_ring_size) IN
            /\ idx' = [idx EXCEPT ![t] = i]
            /\ pc' = [pc EXCEPT ![t] =
                        IF i < aes_key_ring_size THEN "acq_mark"
                        ELSE "acq_unlock"]
    /\ hwop' = NoOp
    /\ UNCHANGED <<channel, desc, srv_rsp, ret, slot, initst, chans, locks,
                   ring, periph>>

(* key_ring[i].acquired = true; slot = &key_ring[i]; break; *)
AcqMark(t) ==
    /\ pc[t] = "acq_mark"
    /\ key_mem' = [key_mem EXCEPT ![idx[t] + 1].acquired = TRUE]
    /\ slot' = [slot EXCEPT ![t] = aes_key_ring + idx[t]]
    /\ pc' = [pc EXCEPT ![t] = "acq_unlock"]
    /\ hwop' = NoOp
    /\ UNCHANGED <<channel, desc, srv_rsp, ret, idx, initst, chans, locks,
                   aes_key_ring, aes_key_ring_size, lent, periph>>

(* Variant: the lock is released only when a slot was found. *)
AcqUnlockOnlyWithSlot(t) ==
    /\ pc[t] = "acq_unlock"
    /\ key_ring_lock' = IF slot[t] = NULL THEN key_ring_lock ELSE SPINLOCK_UNLOCK
    /\ KeyReturn(t, slot[t])
    /\ lent' = IF slot[t] = NULL THEN lent ELSE lent \cup {slot[t]}
    /\ hwop' = NoOp
    /\ UNCHANGED <<channel, desc, srv_rsp, ret, initst, chans, tx_lock,
                   aes_key_ring, aes_key_ring_size, key_mem, periph>>

(* cpu_spin_unlock_xrestore(&drv->key_ring_lock); return slot; *)
AcqUnlock(t) ==
    /\ pc[t] = "acq_unlock"
    /\ key_ring_lock' = SPINLOCK_UNLOCK
    /\ KeyReturn(t, slot[t])
    /\ lent' = IF slot[t] = NULL THEN lent ELSE lent \cup {slot[t]}
    /\ hwop' = NoOp
    /\ UNCHANGED <<channel, desc, srv_rsp, ret, initst, chans, tx_lock,
                   aes_key_ring, aes_key_ring_size, key_mem, periph>>

(* hse_key_slot_release: the switch on slot->type. *)
CallKeySlotRelease(t) ==
    /\ init_ret = "TEE_SUCCESS"
    /\ pc[t] = "idle"
    /\ \E s \in SlotArgs :
        IF SlotType(s) = "AES"
        THEN /\ pc' = [pc EXCEPT ![t] = "rel_lock"]
             /\ slot' = [slot EXCEPT ![t] = s]
             /\ idx' = [idx EXCEPT ![t] = 0]
        ELSE KeyReturn(t, NULL)
    /\ hwop' = NoOp
    /\ UNCHANGED <<channel, desc, srv_rsp, ret, initst, chans, locks, ring,
                   periph>>

RelLock(t) ==
    /\ pc[t] = "rel_lock"
    /\ KeyRingLock(t, "rel_scan")
    /\ hwop' = NoOp
    /\ UNCHANGED <<channel, desc, srv_rsp, ret, slot, idx, initst, chans,
                   tx_lock, ring, periph>>

(* Variant: the loop clears the flag of every slot of the ring when   *)
(* the given slot is found in it.                                     *)
RelScanClearsAll(t) ==
    /\ pc[t] = "rel_scan"
    /\ IF \E i \in 0..(aes_key_ring_size - 1) : slot[t] = aes_key_ring + i
       THEN /\ key_mem' = [i \in 1..Len(key_mem) |->
                               [key_mem[i] EXCEPT !.acquired = FALSE]]
            /\ lent' = {}
       ELSE UNCHANGED <<key_mem, lent>>
    /\ pc' = [pc EXCEPT ![t] = "rel_unlock"]
    /\ hwop' = NoOp
    /\ UNCHANGED <<channel, desc, srv_rsp, ret, slot, idx, initst, chans, locks,
                   aes_key_ring, aes_key_ring_size, periph>>

(* The for loop comparing slot with &key_ring[i]: on a match           *)
(* slot->acquired = false.  The comparison reads no memory.            *)
RelScan(t) ==
    /\ pc[t] = "rel_scan"
    /\ IF \E i \in 0..(aes_key_ring_size - 1) : slot[t] = aes_key_ring + i
       THEN /\ key_mem' = [key_mem EXCEPT
                             ![slot[t] - aes_key_ring + 1].acquired = FALSE]
            /\ lent' = lent \ {slot[t]}
       ELSE UNCHANGED <<key_mem, lent>>
    /\ pc' = [pc EXCEPT ![t] = "rel_unlock"]
    /\ hwop' = NoOp
    /\ UNCHANGED <<channel, desc, srv_rsp, ret, slot, idx, initst, chans, locks,
                   aes_key_ring, aes_key_ring_size, periph>>

RelUnlock(t) ==
    /\ pc[t] = "rel_unlock"
    /\ key_ring_lock' = SPINLOCK_UNLOCK
    /\ KeyReturn(t, NULL)
    /\ hwop' = NoOp
    /\ UNCHANGED <<channel, desc, srv_rsp, ret, initst, chans, tx_lock, ring,
                   periph>>

(* The caller takes the returned value and is ready for its next call. *)
Resume(t) ==
    /\ pc[t] = "returned"
    /\ pc' = [pc EXCEPT ![t] = "idle"]
    /\ ret' = [ret EXCEPT ![t] = "none"]
    /\ slot' = [slot EXCEPT ![t] = NULL]
    /\ hwop' = NoOp
    /\ UNCHANGED <<channel, desc, srv_rsp, idx, initst, chans, locks, ring,
                   periph>>

(* ------------------------------------------------------------------ *)
(* Specifications                                                      *)
(* ------------------------------------------------------------------ *)
BootStep ==
    \/ DrvMalloc
    \/ MuInit
    \/ CheckStatus
    \/ ConfigChannels
    \/ FwVersionCall
    \/ FwVersionReturn
    \/ KeyRingInit
    \/ InitReturn

InReqStep(t) ==
    \/ TxLock(t)
    \/ SelectChannel(t)
    \/ MarkBusy(t)
    \/ TxUnlock(t)
    \/ SyncSrvDesc(t)
    \/ MsgSend(t)
    \/ MsgPending(t)
    \/ MsgRecv(t)
    \/ ClearBusy(t)
    \/ Decode(t)

ReqStep(t) ==
    \/ CallSrvReqSync(t)
    \/ InReqStep(t)

KeyStep(t) ==
    \/ CallKeySlotAcquire(t)
    \/ AcqLock(t)
    \/ AcqScan(t)
    \/ AcqMark(t)
    \/ AcqUnlock(t)
    \/ CallKeySlotRelease(t)
    \/ RelLock(t)
    \/ RelScan(t)
    \/ RelUnlock(t)

HwStep == \E c \in Channels : FwRespond(c)

(* Everything: boot, then callers using requests and key slots. *)
Next ==
    \/ BootStep
    \/ HwStep
    \/ InReqStep(Boot)
    \/ \E t \in Callers : ReqStep(t) \/ KeyStep(t) \/ Resume(t)

Spec == Init /\ [][Next]_vars

(* Boot, then callers that only submit requests. *)
NextReq ==
    \/ BootStep
    \/ HwStep
    \/ InReqStep(Boot)
    \/ \E t \in Callers : ReqStep(t) \/ Resume(t)

SpecReq == Init /\ [][NextReq]_vars

(* Boot (whose version probe is a request), then callers that only    *)
(* acquire and release key slots.                                     *)
NextKey ==
    \/ BootStep
    \/ HwStep
    \/ InReqStep(Boot)
    \/ \E t \in Callers : KeyStep(t) \/ Resume(t)

SpecKey == Init /\ [][NextKey]_vars

(* The translation on its own: the driver is initialised, every      *)
(* caller has a request answered on a channel of its own (caller t on  *)
(* channel t - 1) and has cleared the busy flag; the response word it  *)
(* received is any status code.  The callers then translate and        *)
(* return.                                                             *)
InitDecode ==
    /\ pc = [t \in Procs |-> IF t = Boot THEN "done" ELSE "decode"]
    /\ channel = [t \in Procs |-> IF t = Boot THEN 0 ELSE t - 1]
    /\ desc = [t \in Procs |-> NoDesc]
    /\ srv_rsp \in [Procs -> AllSrvRsps \cup {NoRsp}]
    /\ srv_rsp[Boot] = NoRsp
    /\ \A t \in Callers : srv_rsp[t] \in AllSrvRsps
    /\ ret = [t \in Procs |-> IF t = Boot THEN "TEE_SUCCESS" ELSE "none"]
    /\ slot = [t \in Procs |-> NULL]
    /\ idx = [t \in Procs |-> 0]
    /\ drv = TRUE
    /\ mu = TRUE
    /\ status = TRUE
    /\ fw_buf = TRUE
    /\ firmware_version = "fw"
    /\ init_ret = "TEE_SUCCESS"
    /\ type = [c \in Channels |-> ChannelType(c)]
    /\ channel_busy = [c \in Channels |-> FALSE]
    /\ srv_desc = [c \in Channels |->
                     IF c + 1 \in Callers
                     THEN [buf |-> [srv_id |-> 1, arg |-> "req"], id |-> 1]
                     ELSE [buf |-> NoDesc, id |-> 0]]
    /\ tx_lock = SPINLOCK_UNLOCK
    /\ key_ring_lock = SPINLOCK_UNLOCK
    /\ aes_key_ring = RING_BASE
    /\ aes_key_ring_size = CFG_HSE_AES_KEY_GROUP_SIZE
    /\ key_mem = hse_key_ring_init("AES", CFG_HSE_AES_KEY_GROUP_ID,
                                   CFG_HSE_AES_KEY_GROUP_SIZE, TRUE)
    /\ mu_state = [c \in Channels |-> "free"]
    /\ faults = 0
    /\ hwop = NoOp
    /\ lent = {}

NextDecode ==
    \/ \E t \in Callers : Decode(t)
    \/ \E t \in Callers : Resume(t)

SpecDecode == InitDecode /\ [][NextDecode]_vars

(* The driver in service: crypto_driver_init has returned TEE_SUCCESS  *)
(* with everything allocated, the version probe has used and freed     *)
(* the admin channel, and no call is in progress.  The busy flags of   *)
(* the other channels were never written and hold what malloc left.    *)
InitReady ==
    /\ pc = [t \in Procs |-> IF t = Boot THEN "done" ELSE "idle"]
    /\ channel = [t \in Procs |-> 0]
    /\ desc = [t \in Procs |-> NoDesc]
    /\ srv_rsp = [t \in Procs |-> NoRsp]
    /\ ret = [t \in Procs |-> IF t = Boot THEN "TEE_SUCCESS" ELSE "none"]
    /\ slot = [t \in Procs |-> NULL]
    /\ idx = [t \in Procs |-> 0]
    /\ drv = TRUE
    /\ mu = TRUE
    /\ status = TRUE
    /\ fw_buf = TRUE
    /\ firmware_version = "fw"
    /\ init_ret = "TEE_SUCCESS"
    /\ type = [c \in Channels |-> ChannelType(c)]
    /\ channel_busy \in [Channels -> BOOLEAN]
    /\ ~channel_busy[HSE_CHANNEL_ADM]
    /\ srv_desc = [c \in Channels |->
                     IF c = HSE_CHANNEL_ADM
                     THEN [buf |-> FwDesc(TRUE), id |-> FwDesc(TRUE).srv_id]
                     ELSE [buf |-> NoDesc, id |-> 0]]
    /\ tx_lock = SPINLOCK_UNLOCK
    /\ key_ring_lock = SPINLOCK_UNLOCK
    /\ aes_key_ring = RING_BASE
    /\ aes_key_ring_size = CFG_HSE_AES_KEY_GROUP_SIZE
    /\ key_mem = hse_key_ring_init("AES", CFG_HSE_AES_KEY_GROUP_ID,
                                   CFG_HSE_AES_KEY_GROUP_SIZE, TRUE)
    /\ mu_state = [c \in Channels |-> "free"]
    /\ faults = 0
    /\ hwop = NoOp
    /\ lent = {}

(* Callers using requests and key slots side by side. *)
NextMix ==
    \/ HwStep
    \/ \E t \in Callers : ReqStep(t)
    \/ \E t \in Callers : KeyStep(t)
    \/ \E t \in Callers : Resume(t)

SpecMix == InitReady /\ [][NextMix]_vars

(* One caller spinning in the busy poll: caller 1 asked for any        *)
(* channel when all were free, got SpinChannel, sent, and the firmware *)
(* need never answer on that channel.  The other callers use requests  *)
(* and key slots.                                                      *)
Spinner == 1
SpinChannel ==
    hse_next_free_channel([c \in Channels |-> ChannelType(c)],
                          [c \in Channels |-> FALSE])

InitSpin ==
    /\ pc = [t \in Procs |-> IF t = Boot THEN "done"
                             ELSE IF t = Spinner THEN "poll" ELSE "idle"]
    /\ channel = [t \in Procs |-> IF t = Spinner THEN SpinChannel ELSE 0]
    /\ desc = [t \in Procs |-> NoDesc]
    /\ srv_rsp = [t \in Procs |-> NoRsp]
    /\ ret = [t \in Procs |-> IF t = Boot THEN "TEE_SUCCESS" ELSE "none"]
    /\ slot = [t \in Procs |-> NULL]
    /\ idx = [t \in Procs |-> 0]
    /\ drv = TRUE
    /\ mu = TRUE
    /\ status = TRUE
    /\ fw_buf = TRUE
    /\ firmware_version = "fw"
    /\ init_ret = "TEE_SUCCESS"
    /\ type = [c \in Channels |-> ChannelType(c)]
    /\ channel_busy = [c \in Channels |-> c = SpinChannel]
    /\ srv_desc = [c \in Channels |->
                     IF c = HSE_CHANNEL_ADM
                     THEN [buf |-> FwDesc(TRUE), id |-> FwDesc(TRUE).srv_id]
                     ELSE IF c = SpinChannel
                     THEN [buf |-> [srv_id |-> 1, arg |-> "req"], id |-> 1]
                     ELSE [buf |-> NoDesc, id |-> 0]]
    /\ tx_lock = SPINLOCK_UNLOCK
    /\ key_ring_lock = SPINLOCK_UNLOCK
    /\ aes_key_ring = RING_BASE
    /\ aes_key_ring_size = CFG_HSE_AES_KEY_GROUP_SIZE
    /\ key_mem = hse_key_ring_init("AES", CFG_HSE_AES_KEY_GROUP_ID,
                                   CFG_HSE_AES_KEY_GROUP_SIZE, TRUE)
    /\ mu_state = [c \in Channels |-> IF c = SpinChannel THEN "sent" ELSE "free"]
    /\ faults = 0
    /\ hwop = [op |-> "send", ch |-> SpinChannel]
    /\ lent = {}

NextSpin ==
    \/ HwStep
    \/ MsgPending(Spinner)
    \/ MsgRecv(Spinner)
    \/ ClearBusy(Spinner)
    \/ Decode(Spinner)
    \/ \E t \in Callers \ {Spinner} : ReqStep(t)
    \/ \E t \in Callers \ {Spinner} : KeyStep(t)
    \/ \E t \in Callers \ {Spinner} : Resume(t)

(* Scheduling: a caller that is not the spinner keeps running (weak    *)
(* fairness of its steps), does not starve at a spin lock (strong      *)
(* fairness of the lock steps), leaves the poll loop once the          *)
(* indicator is set, and the firmware answers on every channel but     *)
(* SpinChannel.  Nothing is assumed of the spinner or of its channel.  *)
FairSpin ==
    /\ \A t \in Callers \ {Spinner} :
        /\ SF_vars(TxLock(t))
        /\ SF_vars(AcqLock(t))
        /\ SF_vars(RelLock(t))
        /\ WF_vars(SelectChannel(t) \/ MarkBusy(t) \/ TxUnlock(t)
                     \/ SyncSrvDesc(t) \/ MsgSend(t) \/ MsgRecv(t)
                     \/ ClearBusy(t) \/ Decode(t)
                     \/ (MsgPending(t) /\ pc'[t] = "recv")
                     \/ AcqScan(t) \/ AcqMark(t) \/ AcqUnlock(t)
                     \/ RelScan(t) \/ RelUnlock(t))
    /\ \A c \in Channels \ {SpinChannel} : WF_vars(FwRespond(c))

SpecSpin == InitSpin /\ [][NextSpin]_vars /\ FairSpin

(* Callers submitting requests to a firmware that answers: every      *)
(* request that was sent is eventually answered (weak fairness of the  *)
(* firmware on each channel) and a caller that has sent keeps running  *)
(* (weak fairness of its steps from the poll to the return).           *)
NextLive ==
    \/ HwStep
    \/ \E t \in Callers : ReqStep(t)
    \/ \E t \in Callers : Resume(t)

FairLive ==
    /\ \A c \in Channels : WF_vars(FwRespond(c))
    /\ \A t \in Callers :
          WF_vars((MsgPending(t) /\ pc'[t] = "recv") \/ MsgRecv(t)
                    \/ ClearBusy(t) \/ Decode(t))

SpecLive == InitReady /\ [][NextLive]_vars /\ FairLive

(* ================================================================== *)
(* Properties                                                          *)
(* ================================================================== *)
(* The partition of the channel indices: 0 is the admin channel, the   *)
(* last HSE_STREAM_COUNT are stream channels, the rest are shared.     *)
SharedChannels ==
    {c \in Channels : 0 < c /\ c < HSE_NUM_CHANNELS - HSE_STREAM_COUNT}
StreamChannels ==
    {c \in Channels : 0 < c /\ c >= HSE_NUM_CHANNELS - HSE_STREAM_COUNT}

AllSharedBusy == \A c \in SharedChannels : channel_busy[c]
Configured == pc[Boot] \notin {"init", "mu_init", "check_status", "config"}
                /\ init_ret \in {"none", "TEE_SUCCESS"}

(* Context t is between its mark-busy and its clear-busy on channel c. *)
Holds(t, c) ==
    /\ pc[t] \in {"tx_unlock", "sync", "send", "poll", "recv", "clear"}
    /\ channel[t] = c

(* Context t takes a step. *)
Stepped(t) == pc'[t] # pc[t]

(* Context t returns from hse_srv_req_sync in this step. *)
Returns(t) == Stepped(t) /\ pc'[t] = (IF t = Boot THEN "fw_ret" ELSE "returned")

(* The step leaves the channel table and the peripheral alone. *)
NoChannelEffect ==
    /\ channel_busy' = channel_busy
    /\ srv_desc' = srv_desc
    /\ mu_state' = mu_state
    /\ hwop' = NoOp

(* C1: under any interleaving, at most one request is between          *)
(* mark-busy and clear-busy on a channel at any time, the admin        *)
(* channel 0 included.                                                 *)
C1_OneRequestPerChannel ==
    \A c \in Channels : \A t1, t2 \in Procs :
        Holds(t1, c) /\ Holds(t2, c) => t1 = t2

(* Two callers contend for the admin channel: one has its request in   *)
(* flight on it, the other has taken the lock to claim it.             *)
C1_Witness ==
    \E t1, t2 \in Callers :
        /\ t1 # t2
        /\ Holds(t1, HSE_CHANNEL_ADM) /\ pc[t1] = "poll"
        /\ pc[t2] = "select" /\ channel[t2] = HSE_CHANNEL_ADM

(* C2: once the channels are configured, hse_next_free_channel gives   *)
(* either HSE_CHANNEL_INV, and then every shared channel is busy, or   *)
(* the index of a shared channel (never 0, never a stream channel)     *)
(* whose busy flag is clear; and the types are the partition above.    *)
C2_NextFreeChannel ==
    Configured =>
        LET c == hse_next_free_channel(type, channel_busy) IN
        /\ type[0] = "ADMIN"
        /\ \A s \in Channels \ {0} :
              type[s] = (IF s \in SharedChannels THEN "SHARED" ELSE "STREAM")
        /\ IF c = HSE_CHANNEL_INV
           THEN AllSharedBusy
           ELSE c \in SharedChannels /\ ~channel_busy[c]

(* A caller is resolving "any" while some shared channel is busy, a    *)
(* stream channel is free and the scan still finds a shared one.       *)
C2_Witness ==
    /\ init_ret = "TEE_SUCCESS"
    /\ \E t \in Callers : pc[t] = "select" /\ channel[t] = HSE_CHANNEL_ANY
    /\ \E s \in SharedChannels : channel_busy[s]
    /\ \E s \in StreamChannels : ~channel_busy[s]
    /\ hse_next_free_channel(type, channel_busy) \in SharedChannels

(* C3: a request for "any" channel that finds every shared channel     *)
(* busy returns TEE_ERROR_BUSY with tx_lock released, and neither      *)
(* that step nor the steps of the call before it send anything or      *)
(* change a busy flag or a buffer.                                     *)
C3_AnyAllBusy ==
    [][\A t \in Procs :
        /\ (pc[t] = "select" /\ channel[t] = HSE_CHANNEL_ANY /\ AllSharedBusy
              /\ Stepped(t))
            => /\ Returns(t)
               /\ ret'[t] = "TEE_ERROR_BUSY"
               /\ tx_lock' = SPINLOCK_UNLOCK
               /\ NoChannelEffect
        /\ (Stepped(t) /\ pc'[t] \in {"tx_lock", "select"}
              /\ channel'[t] = HSE_CHANNEL_ANY)
            => NoChannelEffect
      ]_vars

(* A caller asking for "any" channel holds the lock while every shared *)
(* channel is busy.                                                    *)
C3_Witness ==
    \E t \in Callers :
        /\ pc[t] = "select" /\ channel[t] = HSE_CHANNEL_ANY
        /\ AllSharedBusy
        /\ tx_lock = SPINLOCK_LOCK

(* C4: a request naming a channel whose busy flag is set returns       *)
(* TEE_ERROR_BUSY and leaves the buffer, the recorded id and the busy  *)
(* flag of every channel as they were.                                 *)
C4_ExplicitBusy ==
    [][\A t \in Procs :
        /\ (pc[t] = "select" /\ channel[t] \in Channels
              /\ channel_busy[channel[t]] /\ Stepped(t))
            => /\ Returns(t)
               /\ ret'[t] = "TEE_ERROR_BUSY"
               /\ tx_lock' = SPINLOCK_UNLOCK
               /\ NoChannelEffect
        /\ (Stepped(t) /\ pc'[t] \in {"tx_lock", "select"}
              /\ channel'[t] \in Channels)
            => NoChannelEffect
      ]_vars

(* A caller names a channel on which another caller's request is in    *)
(* flight, its descriptor in the buffer.                               *)
C4_Witness ==
    \E t1, t2 \in Callers :
        /\ t1 # t2
        /\ pc[t1] = "select" /\ channel[t1] \in Channels
        /\ channel_busy[channel[t1]]
        /\ Holds(t2, channel[t1]) /\ pc[t2] = "poll"
        /\ srv_desc[channel[t1]].buf \in CallerDescs

(* C5: a call with an absent descriptor, or with an explicit channel   *)
(* index out of range, returns TEE_ERROR_BAD_PARAMETERS in its first   *)
(* step, without taking tx_lock, changing a busy flag or buffer, or    *)
(* using the peripheral; and no call gets past the checks with such    *)
(* arguments.                                                          *)
BadArgs(ch, d) ==
    d = NoDesc \/ (ch # HSE_CHANNEL_ANY /\ ch \notin Channels)

C5_BadParameters ==
    [][\A t \in Callers :
        /\ \A ch \in ChannelArgs, d \in CallerDescs \cup {NoDesc} :
            (pc[t] = "idle" /\ Stepped(t) /\ BadArgs(ch, d)
               /\ SrvReqEntry(t, ch, d))
            => /\ pc'[t] = "returned"
               /\ ret'[t] = "TEE_ERROR_BAD_PARAMETERS"
               /\ tx_lock' = tx_lock
               /\ NoChannelEffect
        /\ (pc[t] = "idle" /\ pc'[t] = "tx_lock")
            => ~BadArgs(channel'[t], desc'[t])
      ]_vars

(* A caller got TEE_ERROR_BAD_PARAMETERS although no caller's request  *)
(* ever reached a channel: the call was rejected at entry.             *)
C5_Witness ==
    \E t \in Callers :
        /\ pc[t] = "returned"
        /\ ret[t] = "TEE_ERROR_BAD_PARAMETERS"
        /\ \A c \in Channels : srv_desc[c].buf \notin CallerDescs
        /\ tx_lock = SPINLOCK_UNLOCK

(* C9: a request returns a translated status code only from the step  *)
(* after the one in which it cleared the busy flag of its channel;     *)
(* a clear flag is set again only by the mark-busy step of a request;  *)
(* and a request for "any" channel that finds a shared channel with a  *)
(* clear flag takes such a channel instead of returning                *)
(* TEE_ERROR_BUSY.  Hence after a request on a shared channel has      *)
(* returned its translated result, a following request for "any"       *)
(* channel, no other request being in progress, obtains a channel.     *)
InRequest(t) ==
    pc[t] \in {"tx_lock", "select", "mark", "tx_unlock", "sync", "send",
               "poll", "recv", "clear", "decode"}

C9_TranslatedAfterFree ==
    [][\A t \in Procs :
        /\ (Stepped(t) /\ pc'[t] = "decode")
            => /\ pc[t] = "clear"
               /\ channel'[t] = channel[t]
               /\ ~channel_busy'[channel[t]]
        /\ (Returns(t) /\ ret'[t] \notin {"TEE_ERROR_BAD_PARAMETERS",
                "TEE_ERROR_BUSY", "MU_SEND_ERROR", "MU_RECV_ERROR"})
            => pc[t] = "decode"
        /\ (Returns(t) /\ pc[t] = "decode")
            => ret'[t] = hse_err_decode(srv_rsp[t])
        /\ \A c \in Channels :
            (Configured /\ ~channel_busy[c] /\ channel_busy'[c])
            => \E t2 \in Procs :
                  pc[t2] = "mark" /\ channel[t2] = c /\ Stepped(t2)
        /\ (pc[t] = "select" /\ channel[t] = HSE_CHANNEL_ANY /\ Stepped(t)
              /\ ~AllSharedBusy)
            => /\ pc'[t] = "mark"
               /\ channel'[t] \in SharedChannels
               /\ ~channel_busy[channel'[t]]
      ]_vars

(* A caller's request on a shared channel was answered with OK and is  *)
(* about to return TEE_SUCCESS, no other request being in progress.    *)
C9_Witness ==
    \E t \in Callers :
        /\ pc[t] = "decode"
        /\ srv_rsp[t] = "HSE_SRV_RSP_OK"
        /\ channel[t] \in SharedChannels
        /\ \A t2 \in Procs \ {t} : ~InRequest(t2)

(* C6: under any interleaving of acquire and release calls, acquire    *)
(* never returns a slot that an earlier acquire returned and that has  *)
(* not been released since (lent holds exactly those slots).           *)
C6_NoDoubleAcquire ==
    [][\A t \in Callers :
        (pc[t] = "acq_unlock" /\ Stepped(t) /\ slot'[t] # NULL)
        => /\ slot'[t] \notin lent
           /\ slot'[t] \in RingAddrs
      ]_vars

(* Two callers hold the results of their acquire calls at the same     *)
(* time: two different slots.                                          *)
C6_Witness ==
    \E t1, t2 \in Callers :
        /\ t1 # t2
        /\ pc[t1] = "returned" /\ pc[t2] = "returned"
        /\ slot[t1] \in RingAddrs /\ slot[t2] \in RingAddrs
        /\ slot[t1] # slot[t2]
        /\ lent = {slot[t1], slot[t2]}

(* C7: once construction is over, the ring has exactly the configured  *)
(* number of slots, each with the handle and type it was built with,   *)
(* the recorded size is that number, and the slots marked acquired     *)
(* (and the slots lent out) are at most that many.                     *)
AcquiredSlots == {i \in 1..Len(key_mem) : key_mem[i].acquired}

C7_RingCapacity ==
    init_ret = "TEE_SUCCESS" =>
        /\ aes_key_ring_size = CFG_HSE_AES_KEY_GROUP_SIZE
        /\ aes_key_ring # NULL => Len(key_mem) = CFG_HSE_AES_KEY_GROUP_SIZE
        /\ \A i \in 1..Len(key_mem) :
              /\ key_mem[i].handle = <<CFG_HSE_AES_KEY_GROUP_ID, i - 1>>
              /\ key_mem[i].type = "AES"
        /\ Cardinality(AcquiredSlots) <= CFG_HSE_AES_KEY_GROUP_SIZE
        /\ Cardinality(lent) <= CFG_HSE_AES_KEY_GROUP_SIZE

(* Every slot of the ring is marked acquired and a further acquire is  *)
(* scanning the ring.                                                  *)
C7_Witness ==
    /\ init_ret = "TEE_SUCCESS"
    /\ aes_key_ring # NULL
    /\ Cardinality(AcquiredSlots) = CFG_HSE_AES_KEY_GROUP_SIZE
    /\ \E t \in Callers : pc[t] = "acq_scan"

(* C8: an acquire that found a slot found the lowest-index slot whose  *)
(* flag was clear, marks it and returns its address; an acquire        *)
(* returns NULL exactly when it found every slot of the ring marked    *)
(* acquired.                                                           *)
C8_AcquireFirstFree ==
    \A t \in Callers :
        /\ pc[t] = "acq_mark" =>
              /\ idx[t] < aes_key_ring_size
              /\ ~key_mem[idx[t] + 1].acquired
              /\ \A j \in 1..idx[t] : key_mem[j].acquired
        /\ pc[t] = "acq_unlock" =>
              IF \A i \in 1..aes_key_ring_size : key_mem[i].acquired
                    /\ idx[t] = aes_key_ring_size
              THEN slot[t] = NULL
              ELSE /\ slot[t] = aes_key_ring + idx[t]
                   /\ slot[t] # NULL
                   /\ key_mem[idx[t] + 1].acquired
                   /\ \A j \in 1..idx[t] : key_mem[j].acquired

(* All slots of the ring are lent out and one more acquire is about    *)
(* to return NULL.                                                     *)
C8_Witness ==
    \E t \in Callers :
        /\ pc[t] = "acq_unlock"
        /\ slot[t] = NULL
        /\ aes_key_ring # NULL
        /\ Cardinality(lent) = CFG_HSE_AES_KEY_GROUP_SIZE

(* C10: crypto_driver_init returns TEE_SUCCESS only if the driver      *)
(* state was allocated, the MU instance was created, the firmware      *)
(* reported HSE_STATUS_INIT_OK, the version probe succeeded with its   *)
(* buffer allocated, and the key ring was allocated.                   *)
C10_InitAllOrNothing ==
    init_ret = "TEE_SUCCESS" =>
        /\ drv /\ mu /\ status
        /\ ret[Boot] = "TEE_SUCCESS"
        /\ fw_buf /\ firmware_version = "fw"
        /\ aes_key_ring # NULL
        /\ Len(key_mem) = aes_key_ring_size

(* C11: once the channels are configured, no step of a request sets    *)
(* the busy flag of a stream channel, writes the buffer or the         *)
(* recorded id of a stream channel, or sends on a stream channel.      *)
C11_StreamUntouched ==
    [][Configured =>
        \A c \in StreamChannels :
            /\ ~channel_busy[c] => ~channel_busy'[c]
            /\ srv_desc'[c] = srv_desc[c]
            /\ ~(hwop'.op = "send" /\ hwop'.ch = c)
      ]_vars

(* C12: hse_err_decode gives every status code exactly one result:    *)
(* OK gives TEE_SUCCESS, VERIFY_FAILED gives TEE_ERROR_COMMUNICATION,  *)
(* INVALID_ADDR and INVALID_PARAM give TEE_ERROR_BAD_PARAMETERS,       *)
(* NOT_SUPPORTED gives TEE_ERROR_NOT_SUPPORTED, NOT_ALLOWED gives      *)
(* TEE_ERROR_ACCESS_DENIED, NOT_ENOUGH_SPACE gives                     *)
(* TEE_ERROR_OUT_OF_MEMORY, CANCELED gives TEE_ERROR_CANCEL, the five  *)
(* key-slot failures give TEE_ERROR_BAD_STATE and every other code     *)
(* gives TEE_ERROR_GENERIC; a request returns that result for the      *)
(* response word it received.                                          *)
C12_Table ==
    {<<{"HSE_SRV_RSP_OK"}, "TEE_SUCCESS">>,
     <<{"HSE_SRV_RSP_VERIFY_FAILED"}, "TEE_ERROR_COMMUNICATION">>,
     <<{"HSE_SRV_RSP_INVALID_ADDR", "HSE_SRV_RSP_INVALID_PARAM"},
       "TEE_ERROR_BAD_PARAMETERS">>,
     <<{"HSE_SRV_RSP_NOT_SUPPORTED"}, "TEE_ERROR_NOT_SUPPORTED">>,
     <<{"HSE_SRV_RSP_NOT_ALLOWED"}, "TEE_ERROR_ACCESS_DENIED">>,
     <<{"HSE_SRV_RSP_NOT_ENOUGH_SPACE"}, "TEE_ERROR_OUT_OF_MEMORY">>,
     <<{"HSE_SRV_RSP_CANCELED"}, "TEE_ERROR_CANCEL">>,
     <<{"HSE_SRV_RSP_KEY_NOT_AVAILABLE", "HSE_SRV_RSP_KEY_EMPTY",
        "HSE_SRV_RSP_KEY_INVALID", "HSE_SRV_RSP_KEY_WRITE_PROTECTED",
        "HSE_SRV_RSP_KEY_UPDATE_ERROR"}, "TEE_ERROR_BAD_STATE">>}

C12_Kind(rsp) ==
    IF \E e \in C12_Table : rsp \in e[1]
    THEN (CHOOSE e \in C12_Table : rsp \in e[1])[2]
    ELSE "TEE_ERROR_GENERIC"

C12_ErrDecodeTotal ==
    [][\A t \in Callers :
        (pc[t] = "decode" /\ Stepped(t))
        => /\ srv_rsp[t] \in AllSrvRsps
           /\ \A e1, e2 \in C12_Table :
                 srv_rsp[t] \in e1[1] /\ srv_rsp[t] \in e2[1] => e1 = e2
           /\ pc'[t] = "returned"
           /\ ret'[t] = C12_Kind(srv_rsp[t])
      ]_vars

(* One caller has returned TEE_ERROR_BAD_STATE for a key-slot failure  *)
(* while another is about to translate a code the function does not    *)
(* name.                                                               *)
C12_Witness ==
    \E t1, t2 \in Callers :
        /\ pc[t1] = "returned" /\ ret[t1] = "TEE_ERROR_BAD_STATE"
        /\ pc[t2] = "decode" /\ srv_rsp[t2] \notin NamedSrvRsps

(* C13: while a caller may spin for ever in the busy poll on          *)
(* SpinChannel, tx_lock is free whenever no context is between its     *)
(* lock and unlock steps (so it is not held during the buffer copy,    *)
(* the send, the poll or the receive), the key ring lock is held only  *)
(* by a context inside acquire or release, and every call of another   *)
(* caller (acquire, release, or a request) returns, unless it is       *)
(* itself polling SpinChannel.                                         *)
TxLockHolders == {t \in Procs : pc[t] \in {"select", "mark", "tx_unlock"}}
KeyLockHolders ==
    {t \in Procs : pc[t] \in {"acq_scan", "acq_mark", "acq_unlock",
                               "rel_scan", "rel_unlock"}}

C14_HeldUntilOwnRelease ==
    [][\A t \in Callers :
        (pc[t] = "returned" /\ slot[t] \in RingAddrs /\ ~Stepped(t)
           /\ key_mem[slot[t] - aes_key_ring + 1].acquired)
        => /\ key_mem'[slot[t] - aes_key_ring + 1].acquired
           /\ \A t2 \in Callers \ {t} :
                 ~(pc[t2] = "acq_unlock" /\ Stepped(t2) /\ slot'[t2] = slot[t])
      ]_vars

(* C15: the busy flag of the chosen channel is set by a step taken    *)
(* with tx_lock held, before the step that releases the lock and       *)
(* before the descriptor is copied; a step that writes the buffer of   *)
(* a channel or sends on it is a step of the one context that set the  *)
(* busy flag of that channel, and the flag stays set from that         *)
(* context's mark step until its own clear step or its return.         *)
C15_MarkBeforeUnlockAndCopy ==
    [][\A t \in Procs :
        /\ (pc[t] = "mark" /\ Stepped(t))
            => /\ tx_lock = SPINLOCK_LOCK /\ tx_lock' = SPINLOCK_LOCK
               /\ channel_busy'[channel[t]]
               /\ srv_desc' = srv_desc
               /\ pc'[t] = "tx_unlock"
        /\ (pc[t] = "tx_unlock" /\ Stepped(t))
            => /\ channel_busy[channel[t]]
               /\ srv_desc' = srv_desc
               /\ pc'[t] = "sync"
        /\ (pc[t] \in {"sync", "send"} /\ Stepped(t))
            => /\ tx_lock' = tx_lock
               /\ channel_busy[channel[t]] /\ channel_busy'[channel[t]]
               /\ \A t2 \in Procs \ {t} : ~Holds(t2, channel[t])
        /\ \A c \in Channels :
            (srv_desc'[c] # srv_desc[c] \/ (hwop'.op = "send" /\ hwop'.ch = c))
            => \E t2 \in Procs :
                  /\ Stepped(t2) /\ Holds(t2, c)
                  /\ pc[t2] \in {"sync", "send"}
        /\ (Holds(t, channel[t]) /\ ~Stepped(t))
            => channel_busy'[channel[t]]
      ]_vars

(* A caller is about to copy its descriptor into the buffer of a       *)
(* channel whose busy flag it has set, tx_lock already released and    *)
(* taken by another caller that names the same channel.                *)
C15_Witness ==
    \E t1, t2 \in Callers :
        /\ t1 # t2
        /\ pc[t1] = "sync" /\ channel_busy[channel[t1]]
        /\ pc[t2] = "select" /\ channel[t2] = channel[t1]
        /\ tx_lock = SPINLOCK_LOCK

(* C16: a request whose send fails returns the error of the send in   *)
(* that step, without polling or receiving, and a request whose        *)
(* receive fails returns the error of the receive, in both cases with  *)
(* the busy flag of its channel still set; a channel whose busy flag   *)
(* is set while no request is between mark and clear on it stays so    *)
(* for ever; a request naming such a channel returns TEE_ERROR_BUSY    *)
(* and a request for any channel never obtains it.                     *)
Leaked(c) == channel_busy[c] /\ \A t \in Procs : ~Holds(t, c)

C16_BusyLeakOnCommError ==
    [][/\ \A t \in Procs :
          /\ (pc[t] = "send" /\ Returns(t))
              => /\ ret'[t] = "MU_SEND_ERROR"
                 /\ hwop' = [op |-> "send", ch |-> channel[t]]
                 /\ mu_state' = mu_state
                 /\ \A c \in Channels : c = channel[t] => Leaked(c)'
          /\ (pc[t] = "recv" /\ Returns(t))
              => /\ ret'[t] = "MU_RECV_ERROR"
                 /\ \A c \in Channels : c = channel[t] => Leaked(c)'
          /\ (pc[t] = "select" /\ Stepped(t) /\ channel[t] \in Channels
                 /\ Leaked(channel[t]))
              => Returns(t) /\ ret'[t] = "TEE_ERROR_BUSY"
          /\ (pc[t] = "select" /\ Stepped(t) /\ pc'[t] = "mark")
              => ~Leaked(channel'[t])
       /\ \A c \in Channels : Leaked(c) => Leaked(c)'
      ]_vars

(* A caller's send on a shared channel has failed and it has returned  *)
(* the error; the channel is left busy with its buffer written and     *)
(* nothing sent, and another caller naming it holds the lock.          *)
C16_Witness ==
    \E c \in SharedChannels : \E t1, t2 \in Callers :
        /\ t1 # t2
        /\ pc[t1] = "returned" /\ ret[t1] = "MU_SEND_ERROR"
        /\ Leaked(c)
        /\ srv_desc[c].buf \in CallerDescs
        /\ mu_state[c] = "free"
        /\ pc[t2] = "select" /\ channel[t2] = c

(* C17: a request that has sent leaves the poll loop only by a step   *)
(* that finds the pending indicator of its channel set; until then it  *)
(* stays in the loop with its channel busy (no timeout, no retry).     *)
(* When the firmware answers every request that was sent, such a       *)
(* request gets to its return: with the busy flag of its channel       *)
(* cleared when the receive succeeded, or with the error of the        *)
(* receive.                                                            *)
C17_PollUntilPending ==
    /\ [][\A t \in Procs :
            /\ (pc[t] = "poll" /\ mu_state[channel[t]] # "pending")
                => /\ pc'[t] = "poll"
                   /\ channel'[t] = channel[t]
                   /\ channel_busy'[channel[t]]
            /\ (pc[t] = "poll" /\ Stepped(t))
                => /\ mu_state[channel[t]] = "pending"
                   /\ pc'[t] = "recv"
                   /\ channel_busy'[channel[t]]
       ]_vars
    /\ \A t \in Callers :
          (pc[t] = "poll")
            ~> (\/ pc[t] = "decode" /\ ~channel_busy[channel[t]]
                \/ pc[t] = "returned" /\ ret[t] = "MU_RECV_ERROR")

(* A caller is in the poll loop on a shared channel that the firmware  *)
(* has not answered yet, the channel busy.                             *)
C17_Witness ==
    \E t \in Callers :
        /\ pc[t] = "poll"
        /\ channel[t] \in SharedChannels
        /\ mu_state[channel[t]] = "sent"
        /\ channel_busy[channel[t]]
        /\ hwop = [op |-> "pending", ch |-> channel[t]]

C19_ReleaseFrame ==
    [][\A t \in Callers :
        (Stepped(t) /\ (pc[t] \in {"rel_lock", "rel_scan", "rel_unlock"}
                          \/ pc'[t] = "rel_lock"
                          \/ (pc[t] = "idle" /\ pc'[t] = "returned")))
        => /\ aes_key_ring' = aes_key_ring
           /\ aes_key_ring_size' = aes_key_ring_size
           /\ Len(key_mem') = Len(key_mem)
           /\ \A i \in 1..Len(key_mem) :
                 /\ key_mem'[i].handle = key_mem[i].handle
                 /\ key_mem'[i].type = key_mem[i].type
                 /\ (key_mem'[i].acquired # key_mem[i].acquired)
                     => /\ pc[t] = "rel_scan"
                        /\ slot[t] = aes_key_ring + (i - 1)
                        /\ key_mem[i].acquired /\ ~key_mem'[i].acquired
           /\ (slot[t] \notin RingAddrs) => key_mem' = key_mem
           /\ (slot[t] \in RingAddrs /\ ~key_mem[slot[t] - aes_key_ring + 1].acquired)
               => key_mem' = key_mem
      ]_vars

(* A release has just cleared the flag of its slot while another slot  *)
(* of the ring is still acquired.                                      *)
C19_Witness ==
    \E t \in Callers :
        /\ pc[t] = "rel_unlock"
        /\ slot[t] \in RingAddrs
        /\ ~key_mem[slot[t] - aes_key_ring + 1].acquired
        /\ \E i \in 1..Len(key_mem) :
              key_mem[i].acquired /\ aes_key_ring + (i - 1) \in lent

(* C20: when crypto_driver_init issues the version probe the busy     *)
(* flag of every channel is clear, the probe is not answered with      *)
(* TEE_ERROR_BUSY, and once crypto_driver_init has returned            *)
(* TEE_SUCCESS, whenever no request is in progress every busy flag is  *)
(* clear.                                                              *)
C20_ChannelsIdleAtProbe ==
    /\ pc[Boot] \in {"fw_version", "tx_lock", "select"}
          => \A c \in Channels : ~channel_busy[c]
    /\ ret[Boot] # "TEE_ERROR_BUSY"
    /\ (init_ret = "TEE_SUCCESS" /\ \A t \in Procs : ~InRequest(t))
          => \A c \in Channels : ~channel_busy[c]

====
